---- MODULE Spec2Model ----
(***************************************************************************)
(* A model of the Result library of src/mod.ts: the two classes Result.Ok  *)
(* and Result.Err, the constructors Result.ok / Result.err and the         *)
(* collection function Result.fromIter.                                    *)
(*                                                                         *)
(* Every Result is an object on a heap; its identity is its index in       *)
(* `heap`.  A method call is one action: it computes the method's outcome  *)
(* (the heap after the call, the value returned or the Error raised, and   *)
(* the callbacks it invoked, in order) and records it in `last`.           *)
(*                                                                         *)
(* The runtime is garbage collected.  The program holds the Results        *)
(* heap[1..kept]; what a method call allocates is a temporary that lives   *)
(* until the next call that is not chained on it.                          *)
(***************************************************************************)
EXTENDS Integers, Sequences, FiniteSets, TLC

VARIABLES
  heap,   \* the live Result objects; heap[i] is the object with identity i
  kept,   \* heap[1..kept] are held by the program, the rest are temporaries
  last,   \* the outcome of the most recent library call
  fi,     \* the activation of Result.fromIter in progress, if any
  its,    \* the iterator objects obtained from [Symbol.iterator]()
  tasks   \* the asynchronous calls that have not completed

vars == <<heap, kept, last, fi, its, tasks>>

(***************************************************************************)
(* Bounds of the model.                                                    *)
(***************************************************************************)
MaxHeap     == 2    \* Results the program constructs and holds
MaxOperands == 3    \* Results held where and / or are chained
MaxSrc      == 2    \* length of the sequence a source of fromIter is built from
MaxPull     == 3    \* elements fromIter may pull from an endless source
MaxIts      == 1    \* iterator objects alive
MaxTasks    == 1    \* asynchronous calls in flight
MaxIterators == 2   \* iterator objects alive where iteration is studied
MaxDrain    == 3    \* values [...x] collects before it is cut short
MaxInFlight == 2    \* asynchronous calls in flight where they are studied

(***************************************************************************)
(* JavaScript values.  A value is a record [k, n]: k is the kind and n the *)
(* number, the truth value (1 or 0), the identity of the Result referred   *)
(* to, or the elements of an array.                                        *)
(***************************************************************************)
Undefined == [k |-> "undefined", n |-> 0]
Null      == [k |-> "null", n |-> 0]
Num(i)    == [k |-> "num", n |-> i]
Bool(b)   == [k |-> "bool", n |-> IF b THEN 1 ELSE 0]
Ref(i)    == [k |-> "ref", n |-> i]
Arr(s)    == [k |-> "arr", n |-> s]
Str(s)    == [k |-> "str", n |-> s]

\* no value: what a call that raised returned, an argument not passed
NoValue == [k |-> "none", n |-> 0]

\* the primitive payloads the constructors are called with
Prims == {Undefined, Null, Num(0)}

\* the messages expect / expectErr are called with
Msgs == {"", "message"}

OkObj(v)  == [cls |-> "Ok", val |-> v]
ErrObj(v) == [cls |-> "Err", val |-> v]

(***************************************************************************)
(* Callbacks.  A callback is a non-empty sequence of primitive functions:  *)
(* <<f>> is f and <<f, g>> is x => g(f(x)).                                *)
(*   succ    x => typeof x === "number" ? x + 1 : 0                        *)
(*   toNull  () => null                                                    *)
(*   isZero  x => x === 0                                                  *)
(*   mkOk    Result.ok                                                     *)
(*   mkErr   Result.err                                                    *)
(*   id      x => x                                                        *)
(***************************************************************************)
PrimCall(h, p, v) ==
  CASE p = "succ"   -> [heap |-> h, val |-> IF v.k = "num" THEN Num(v.n + 1) ELSE Num(0)]
    [] p = "id"     -> [heap |-> h, val |-> v]
    [] p = "toNull" -> [heap |-> h, val |-> Null]
    [] p = "isZero" -> [heap |-> h, val |-> Bool(v = Num(0))]
    [] p = "mkOk"   -> [heap |-> Append(h, OkObj(v)), val |-> Ref(Len(h) + 1)]
    [] p = "mkErr"  -> [heap |-> Append(h, ErrObj(v)), val |-> Ref(Len(h) + 1)]

RECURSIVE Invoke(_, _, _)
Invoke(h, fn, v) ==
  IF fn = <<>> THEN [heap |-> h, val |-> v]
  ELSE LET s == PrimCall(h, Head(fn), v) IN Invoke(s.heap, Tail(fn), s.val)

ValueFns    == {<<"succ">>, <<"toNull">>}
ComposedFns == {<<f[1], g[1]>> : f \in ValueFns, g \in ValueFns}
Preds       == {<<"isZero">>}
ResultFns   == {<<"mkOk">>, <<"mkErr">>}

(***************************************************************************)
(* The arguments of a call.  A method reads the ones it declares:          *)
(*   fn     the callback (fn, and, then, _else; for mapOr and mapOrElse   *)
(*          their second parameter fn)                                     *)
(*   fn2    the first parameter _else of mapOrElse                         *)
(*   other  the Result res passed to and / or                              *)
(*   str    the message msg of expect / expectErr                          *)
(*   arg    the value or of mapOr / unwrapOr; the payload of a constructor *)
(***************************************************************************)
NoArgs == [fn |-> <<>>, fn2 |-> <<>>, other |-> 0, str |-> "", arg |-> NoValue]

(***************************************************************************)
(* The outcome of a call: the heap after it, the value returned (or the    *)
(* Error raised, with its message), and the callback invocations made,     *)
(* each <<callback, argument>>.                                            *)
(***************************************************************************)
Return(h, v, calls) ==
  [heap |-> h, ret |-> v, thrown |-> FALSE, msg |-> "", calls |-> calls]

Throw(h, m) ==
  [heap |-> h, ret |-> NoValue, thrown |-> TRUE, msg |-> m, calls |-> <<>>]

\* new Ok(v) / new Err(v): the object gets the next identity
NewOk(h, v, calls)  == Return(Append(h, OkObj(v)), Ref(Len(h) + 1), calls)
NewErr(h, v, calls) == Return(Append(h, ErrObj(v)), Ref(Len(h) + 1), calls)

(***************************************************************************)
(* Result.ok, Result.err                                                   *)
(***************************************************************************)
\* a Result.ok that refuses undefined
Result_ok_checked(h, v) ==
  IF v = Undefined THEN Throw(h, "ok called with undefined") ELSE NewOk(h, v, <<>>)
Result_ok(h, v)  == NewOk(h, v, <<>>)
Result_err(h, v) == NewErr(h, v, <<>>)

(***************************************************************************)
(* class Result.Ok                                                         *)
(***************************************************************************)
Ok_isOk(h, r, a)  == Return(h, Bool(TRUE), <<>>)
Ok_isErr(h, r, a) == Return(h, Bool(FALSE), <<>>)

Ok_isOkAnd(h, r, a) ==
  LET c == Invoke(h, a.fn, h[r].val) IN Return(c.heap, c.val, <<<<a.fn, h[r].val>>>>)
Ok_isErrAnd(h, r, a) == Return(h, Bool(FALSE), <<>>)

\* a map that applies the callback to its own result again
Ok_map_twice(h, r, a) ==
  LET c == Invoke(h, a.fn, h[r].val)
      d == Invoke(c.heap, a.fn, c.val)
  IN NewOk(d.heap, d.val, <<<<a.fn, h[r].val>>>>)
\* a map that stores the mapped payload in the receiver
Ok_map_inplace(h, r, a) ==
  LET c == Invoke(h, a.fn, h[r].val) IN
    Return([c.heap EXCEPT ![r].val = c.val], Ref(r), <<<<a.fn, h[r].val>>>>)
Ok_map(h, r, a) ==
  LET c == Invoke(h, a.fn, h[r].val) IN NewOk(c.heap, c.val, <<<<a.fn, h[r].val>>>>)
Ok_mapOr(h, r, a) ==
  LET c == Invoke(h, a.fn, h[r].val) IN Return(c.heap, c.val, <<<<a.fn, h[r].val>>>>)
Ok_mapOrElse(h, r, a) ==
  LET c == Invoke(h, a.fn, h[r].val) IN Return(c.heap, c.val, <<<<a.fn, h[r].val>>>>)
\* a mapErr that returns a copy of the Ok
Ok_mapErr_copy(h, r, a) == NewOk(h, h[r].val, <<>>)
Ok_mapErr(h, r, a) == Return(h, Ref(r), <<>>)

\* an inspect that returns what the callback returned
Ok_inspect_result(h, r, a) ==
  LET c == Invoke(h, a.fn, h[r].val) IN Return(c.heap, c.val, <<<<a.fn, h[r].val>>>>)
Ok_inspect(h, r, a) ==
  LET c == Invoke(h, a.fn, h[r].val) IN Return(c.heap, Ref(r), <<<<a.fn, h[r].val>>>>)
Ok_inspectErr(h, r, a) == Return(h, Ref(r), <<>>)

Ok_expect(h, r, a)       == Return(h, h[r].val, <<>>)
\* an unwrap that refuses an absent payload
Ok_unwrap_strict(h, r, a) ==
  IF h[r].val \in {Undefined, Null} THEN Throw(h, "unwrap called on an absent value")
                                    ELSE Return(h, h[r].val, <<>>)
Ok_unwrap(h, r, a)       == Return(h, h[r].val, <<>>)
\* an unwrapOr that takes the default for an absent payload
Ok_unwrapOr_nullish(h, r, a) ==
  Return(h, IF h[r].val \in {Undefined, Null} THEN a.arg ELSE h[r].val, <<>>)
Ok_unwrapOr(h, r, a)     == Return(h, h[r].val, <<>>)
Ok_unwrapOrElse(h, r, a) == Return(h, h[r].val, <<>>)
Ok_expectErr(h, r, a)    == Throw(h, a.str \o ": expectErr called on an Ok value")
\* an unwrapErr that reads the err field an Ok does not have
Ok_unwrapErr_err(h, r, a) == Return(h, Undefined, <<>>)
\* an unwrapErr that hands out the payload of an Ok
Ok_unwrapErr_returns(h, r, a) == Return(h, h[r].val, <<>>)
Ok_unwrapErr(h, r, a)    == Throw(h, "unwrapErr called on an Ok value")

\* an and that returns a copy of res
Ok_and_copy(h, r, a) ==
  IF h[a.other].cls = "Ok" THEN NewOk(h, h[a.other].val, <<>>)
                           ELSE NewErr(h, h[a.other].val, <<>>)
Ok_and(h, r, a) == Return(h, Ref(a.other), <<>>)
\* an andThen that wraps what the callback returned, as map does
Ok_andThen_wraps(h, r, a) ==
  LET c == Invoke(h, a.fn, h[r].val) IN NewOk(c.heap, c.val, <<<<a.fn, h[r].val>>>>)
Ok_andThen(h, r, a) ==
  LET c == Invoke(h, a.fn, h[r].val) IN Return(c.heap, c.val, <<<<a.fn, h[r].val>>>>)
Ok_or(h, r, a)     == Return(h, Ref(r), <<>>)
Ok_orElse(h, r, a) == Return(h, Ref(r), <<>>)

\* a transpose that takes every falsy payload for an absent one
Ok_transpose_falsy(h, r, a) ==
  IF h[r].val \in {Undefined, Null, Num(0), Str(""), Bool(FALSE)}
  THEN Return(h, Undefined, <<>>)
  ELSE NewOk(h, h[r].val, <<>>)
Ok_transpose(h, r, a) ==
  IF h[r].val = Undefined \/ h[r].val = Null
  THEN Return(h, Undefined, <<>>)
  ELSE NewOk(h, h[r].val, <<>>)
Ok_flatten(h, r, a) == Return(h, h[r].val, <<>>)
\* a clone that copies a nested Result too
Ok_clone_deep(h, r, a) ==
  IF h[r].val.k = "ref"
  THEN LET g == Append(h, h[h[r].val.n]) IN NewOk(g, Ref(Len(g)), <<>>)
  ELSE NewOk(h, h[r].val, <<>>)
Ok_clone(h, r, a)   == NewOk(h, h[r].val, <<>>)

(***************************************************************************)
(* class Result.Err                                                        *)
(***************************************************************************)
\* an isOk copied from Ok and left unchanged
Err_isOk_true(h, r, a) == Return(h, Bool(TRUE), <<>>)
Err_isOk(h, r, a)  == Return(h, Bool(FALSE), <<>>)
Err_isErr(h, r, a) == Return(h, Bool(TRUE), <<>>)

\* an isOkAnd that puts the payload of an Err to the predicate
Err_isOkAnd_asks(h, r, a) ==
  LET c == Invoke(h, a.fn, h[r].val) IN Return(c.heap, c.val, <<<<a.fn, h[r].val>>>>)
Err_isOkAnd(h, r, a) == Return(h, Bool(FALSE), <<>>)
Err_isErrAnd(h, r, a) ==
  LET c == Invoke(h, a.fn, h[r].val) IN Return(c.heap, c.val, <<<<a.fn, h[r].val>>>>)

\* a map that maps the payload of an Err too
Err_map_applies(h, r, a) ==
  LET c == Invoke(h, a.fn, h[r].val) IN NewErr(c.heap, c.val, <<<<a.fn, h[r].val>>>>)
Err_map(h, r, a)   == Return(h, Ref(r), <<>>)
Err_mapOr(h, r, a) == Return(h, a.arg, <<>>)
\* a mapOrElse that runs fn on the payload of an Err
Err_mapOrElse_fn(h, r, a) ==
  LET c == Invoke(h, a.fn, h[r].val) IN Return(c.heap, c.val, <<<<a.fn, h[r].val>>>>)
Err_mapOrElse(h, r, a) ==
  LET c == Invoke(h, a.fn2, h[r].val) IN Return(c.heap, c.val, <<<<a.fn2, h[r].val>>>>)
\* a mapErr that wraps the mapped error in an Ok
Err_mapErr_ok(h, r, a) ==
  LET c == Invoke(h, a.fn, h[r].val) IN NewOk(c.heap, c.val, <<<<a.fn, h[r].val>>>>)
Err_mapErr(h, r, a) ==
  LET c == Invoke(h, a.fn, h[r].val) IN NewErr(c.heap, c.val, <<<<a.fn, h[r].val>>>>)

Err_inspect(h, r, a) == Return(h, Ref(r), <<>>)
Err_inspectErr(h, r, a) ==
  LET c == Invoke(h, a.fn, h[r].val) IN Return(c.heap, Ref(r), <<<<a.fn, h[r].val>>>>)

\* an expect that drops the caller's message
Err_expect_nomsg(h, r, a) == Throw(h, "expect called on an Err value")
Err_expect(h, r, a)   == Throw(h, a.str \o ": expect called on an Err value")
Err_unwrap(h, r, a)   == Throw(h, "unwrap called on an Err value")
Err_unwrapOr(h, r, a) == Return(h, a.arg, <<>>)
Err_unwrapOrElse(h, r, a) ==
  LET c == Invoke(h, a.fn, h[r].val) IN Return(c.heap, c.val, <<<<a.fn, h[r].val>>>>)
Err_expectErr(h, r, a) == Return(h, h[r].val, <<>>)
Err_unwrapErr(h, r, a) == Return(h, h[r].val, <<>>)

Err_and(h, r, a)     == Return(h, Ref(r), <<>>)
\* an Err.andThen that gives its payload to the callback
Err_andThen_applies(h, r, a) ==
  LET c == Invoke(h, a.fn, h[r].val) IN Return(c.heap, c.val, <<<<a.fn, h[r].val>>>>)
Err_andThen(h, r, a) == Return(h, Ref(r), <<>>)
Err_or(h, r, a)      == Return(h, Ref(a.other), <<>>)
Err_orElse(h, r, a) ==
  LET c == Invoke(h, a.fn, h[r].val) IN Return(c.heap, c.val, <<<<a.fn, h[r].val>>>>)

Err_transpose(h, r, a) == Return(h, Ref(r), <<>>)
\* a flatten that hands out a Result held by an Err
Err_flatten_unwraps(h, r, a) ==
  Return(h, IF h[r].val.k = "ref" THEN h[r].val ELSE Ref(r), <<>>)
Err_flatten(h, r, a)   == Return(h, Ref(r), <<>>)
Err_clone(h, r, a)     == NewErr(h, h[r].val, <<>>)

(***************************************************************************)
(* Dynamic dispatch: r.op(...) runs the method of r's class.               *)
(***************************************************************************)
OkMethod(op, h, r, a) ==
  CASE op = "isOk"         -> Ok_isOk(h, r, a)
    [] op = "isErr"        -> Ok_isErr(h, r, a)
    [] op = "isOkAnd"      -> Ok_isOkAnd(h, r, a)
    [] op = "isErrAnd"     -> Ok_isErrAnd(h, r, a)
    [] op = "map"          -> Ok_map(h, r, a)
    [] op = "mapOr"        -> Ok_mapOr(h, r, a)
    [] op = "mapOrElse"    -> Ok_mapOrElse(h, r, a)
    [] op = "mapErr"       -> Ok_mapErr(h, r, a)
    [] op = "inspect"      -> Ok_inspect(h, r, a)
    [] op = "inspectErr"   -> Ok_inspectErr(h, r, a)
    [] op = "expect"       -> Ok_expect(h, r, a)
    [] op = "unwrap"       -> Ok_unwrap(h, r, a)
    [] op = "unwrapOr"     -> Ok_unwrapOr(h, r, a)
    [] op = "unwrapOrElse" -> Ok_unwrapOrElse(h, r, a)
    [] op = "expectErr"    -> Ok_expectErr(h, r, a)
    [] op = "unwrapErr"    -> Ok_unwrapErr(h, r, a)
    [] op = "and"          -> Ok_and(h, r, a)
    [] op = "andThen"      -> Ok_andThen(h, r, a)
    [] op = "or"           -> Ok_or(h, r, a)
    [] op = "orElse"       -> Ok_orElse(h, r, a)
    [] op = "transpose"    -> Ok_transpose(h, r, a)
    [] op = "flatten"      -> Ok_flatten(h, r, a)
    [] op = "clone"        -> Ok_clone(h, r, a)

ErrMethod(op, h, r, a) ==
  CASE op = "isOk"         -> Err_isOk(h, r, a)
    [] op = "isErr"        -> Err_isErr(h, r, a)
    [] op = "isOkAnd"      -> Err_isOkAnd(h, r, a)
    [] op = "isErrAnd"     -> Err_isErrAnd(h, r, a)
    [] op = "map"          -> Err_map(h, r, a)
    [] op = "mapOr"        -> Err_mapOr(h, r, a)
    [] op = "mapOrElse"    -> Err_mapOrElse(h, r, a)
    [] op = "mapErr"       -> Err_mapErr(h, r, a)
    [] op = "inspect"      -> Err_inspect(h, r, a)
    [] op = "inspectErr"   -> Err_inspectErr(h, r, a)
    [] op = "expect"       -> Err_expect(h, r, a)
    [] op = "unwrap"       -> Err_unwrap(h, r, a)
    [] op = "unwrapOr"     -> Err_unwrapOr(h, r, a)
    [] op = "unwrapOrElse" -> Err_unwrapOrElse(h, r, a)
    [] op = "expectErr"    -> Err_expectErr(h, r, a)
    [] op = "unwrapErr"    -> Err_unwrapErr(h, r, a)
    [] op = "and"          -> Err_and(h, r, a)
    [] op = "andThen"      -> Err_andThen(h, r, a)
    [] op = "or"           -> Err_or(h, r, a)
    [] op = "orElse"       -> Err_orElse(h, r, a)
    [] op = "transpose"    -> Err_transpose(h, r, a)
    [] op = "flatten"      -> Err_flatten(h, r, a)
    [] op = "clone"        -> Err_clone(h, r, a)

Method(op, h, r, a) ==
  IF h[r].cls = "Ok" THEN OkMethod(op, h, r, a) ELSE ErrMethod(op, h, r, a)

(***************************************************************************)
(* The calls a program makes: the methods by the arguments they take, and  *)
(* the arguments tried.                                                    *)
(***************************************************************************)
QueryOps   == {"isOk", "isErr"}
UnwrapOps  == {"unwrap", "unwrapErr"}
ExpectOps  == {"expect", "expectErr"}
MapOps     == {"map", "mapErr"}
AndOrOps   == {"and", "or"}
NoArgOps   == QueryOps \cup UnwrapOps \cup {"transpose", "flatten", "clone"}
ValueFnOps == MapOps \cup {"inspect", "inspectErr", "unwrapOrElse"}
PredOps    == {"isOkAnd", "isErrAnd"}
ThenOps    == {"andThen", "orElse"}
SyncOps    == NoArgOps \cup ValueFnOps \cup PredOps \cup ThenOps \cup ExpectOps
                \cup AndOrOps \cup {"mapOr", "mapOrElse", "unwrapOr"}

Defaults == {Undefined, Num(0)}

\* the arguments tried for op, with F the callbacks and R the Results at hand
ArgsOf(op, F, R) ==
  CASE op \in NoArgOps    -> {NoArgs}
    [] op \in ValueFnOps  -> {[NoArgs EXCEPT !.fn = f] : f \in F}
    [] op \in PredOps     -> {[NoArgs EXCEPT !.fn = f] : f \in Preds}
    [] op \in ThenOps     -> {[NoArgs EXCEPT !.fn = f] : f \in ResultFns}
    [] op \in ExpectOps   -> {[NoArgs EXCEPT !.str = m] : m \in Msgs}
    [] op \in AndOrOps    -> {[NoArgs EXCEPT !.other = i] : i \in R}
    [] op = "mapOr"       -> {[NoArgs EXCEPT !.arg = d, !.fn = f] : d \in Defaults, f \in F}
    [] op = "mapOrElse"   -> {[NoArgs EXCEPT !.fn2 = e, !.fn = f] : e \in F, f \in F}
    [] op = "unwrapOr"    -> {[NoArgs EXCEPT !.arg = d] : d \in Defaults}

(***************************************************************************)
(* The record of a call kept in `last`: the call (op, receiver recv,       *)
(* arguments a), its outcome, and chain: the calls before it in the same   *)
(* method chain x.m1(..).m2(..), each with what it returned.               *)
(***************************************************************************)
NoCall ==
  [op |-> "none", recv |-> 0, a |-> NoArgs, ret |-> NoValue, thrown |-> FALSE,
   msg |-> "", calls |-> <<>>, chain |-> <<>>, src |-> <<>>, endless |-> FALSE,
   pulled |-> 0]

Record(op, r, a, out) ==
  [NoCall EXCEPT !.op = op, !.recv = r, !.a = a, !.ret = out.ret,
                 !.thrown = out.thrown, !.msg = out.msg, !.calls = out.calls]

Link(c) == [op |-> c.op, recv |-> c.recv, a |-> c.a, ret |-> c.ret]

NoFromIter ==
  [pc |-> "idle", src |-> <<>>, endless |-> FALSE, pulled |-> 0, oks |-> <<>>]

Idle     == fi.pc = "idle"
Retained == SubSeq(heap, 1, kept)

(***************************************************************************)
(* Actions.                                                                *)
(***************************************************************************)
\* Result.ok(v) / Result.err(v) with v from P; the program holds the new Result
Construct(P, limit) ==
  /\ Idle
  /\ kept < limit
  /\ \E op \in {"ok", "err"}, v \in P :
       LET out == IF op = "ok" THEN Result_ok(Retained, v) ELSE Result_err(Retained, v) IN
         /\ heap' = out.heap
         /\ kept' = Len(out.heap)
         /\ last' = Record(op, 0, [NoArgs EXCEPT !.arg = v], out)
  /\ UNCHANGED <<fi, its, tasks>>

\* new Result.Ok(v) / new Result.Err(v) with v from P
New(P, limit) ==
  /\ Idle
  /\ kept < limit
  /\ \E op \in {"newOk", "newErr"}, v \in P :
       LET out == IF op = "newOk" THEN NewOk(Retained, v, <<>>)
                                  ELSE NewErr(Retained, v, <<>>) IN
         /\ heap' = out.heap
         /\ kept' = Len(out.heap)
         /\ last' = Record(op, 0, [NoArgs EXCEPT !.arg = v], out)
  /\ UNCHANGED <<fi, its, tasks>>

\* r.op(...) on a Result r of R, which the program holds
Call(ops, R, F) ==
  /\ Idle
  /\ \E op \in ops, r \in R :
       \E a \in ArgsOf(op, F, R) :
         LET out == Method(op, Retained, r, a) IN
           /\ heap' = out.heap
           /\ last' = Record(op, r, a, out)
  /\ UNCHANGED <<kept, fi, its, tasks>>

\* x.op(...) where x is the Result the previous call, one of `from`, returned
Chain(from, ops, F) ==
  /\ Idle
  /\ last.op \in from
  /\ last.chain = <<>>
  /\ ~last.thrown
  /\ last.ret.k = "ref"
  /\ \E op \in ops :
       \E a \in ArgsOf(op, F, 1..kept) :
         LET out == Method(op, heap, last.ret.n, a) IN
           /\ heap' = out.heap
           /\ last' = [Record(op, last.ret.n, a, out) EXCEPT !.chain = <<Link(last)>>]
  /\ UNCHANGED <<kept, fi, its, tasks>>

(***************************************************************************)
(* Result.fromIter.  The source `results` yields the Results src[1],       *)
(* src[2], ... and then ends, or, when endless, starts over with src[1].   *)
(* Each turn of the loop `for (const res of results)` is a step, so that   *)
(* the elements pulled from the source can be counted.                     *)
(***************************************************************************)
\* res.ok
Field_ok(h, r) == IF h[r].cls = "Ok" THEN h[r].val ELSE Undefined

FromIter_begin(src, endless) ==
  [pc |-> "loop", src |-> src, endless |-> endless, pulled |-> 0, oks |-> <<>>]

\* a loop that takes an Ok whose payload is falsy for a failure
FromIter_step_truthy(h, f) ==
  IF ~f.endless /\ f.pulled = Len(f.src)
  THEN [done |-> TRUE, fi |-> f, out |-> NewOk(h, Arr(f.oks), <<>>)]
  ELSE LET res == f.src[(f.pulled % Len(f.src)) + 1]
           g   == [f EXCEPT !.pulled = @ + 1]
       IN IF Field_ok(h, res) \in {Undefined, Null, Num(0)}
          THEN [done |-> TRUE, fi |-> g, out |-> Return(h, Ref(res), <<>>)]
          ELSE [done |-> FALSE, fi |-> [g EXCEPT !.oks = Append(@, Field_ok(h, res))],
                out |-> Return(h, NoValue, <<>>)]

\* a loop that skips an Err and goes on pulling
FromIter_step_drain(h, f) ==
  IF ~f.endless /\ f.pulled = Len(f.src)
  THEN [done |-> TRUE, fi |-> f, out |-> NewOk(h, Arr(f.oks), <<>>)]
  ELSE LET res == f.src[(f.pulled % Len(f.src)) + 1]
           g   == [f EXCEPT !.pulled = @ + 1]
       IN IF Method("isErr", h, res, NoArgs).ret = Bool(TRUE)
          THEN [done |-> FALSE, fi |-> g, out |-> Return(h, NoValue, <<>>)]
          ELSE [done |-> FALSE, fi |-> [g EXCEPT !.oks = Append(@, Field_ok(h, res))],
                out |-> Return(h, NoValue, <<>>)]

\* one turn of the loop in activation f: the source is exhausted and
\* new Ok(oks) is returned, or res is pulled and is returned, or is pushed
FromIter_step(h, f) ==
  IF ~f.endless /\ f.pulled = Len(f.src)
  THEN [done |-> TRUE, fi |-> f, out |-> NewOk(h, Arr(f.oks), <<>>)]
  ELSE LET res == f.src[(f.pulled % Len(f.src)) + 1]
           g   == [f EXCEPT !.pulled = @ + 1]
       IN IF Method("isErr", h, res, NoArgs).ret = Bool(TRUE)
          THEN [done |-> TRUE, fi |-> g, out |-> Return(h, Ref(res), <<>>)]
          ELSE [done |-> FALSE, fi |-> [g EXCEPT !.oks = Append(@, Field_ok(h, res))],
                out |-> Return(h, NoValue, <<>>)]

RECURSIVE SeqsUpTo(_, _)
SeqsUpTo(S, n) ==
  IF n = 0 THEN {<<>>}
  ELSE LET T == SeqsUpTo(S, n - 1) IN T \cup {Append(t, x) : t \in T, x \in S}

FromIterStart(R) ==
  /\ Idle
  /\ \E src \in SeqsUpTo(R, MaxSrc), endless \in BOOLEAN :
       /\ endless => src # <<>>
       /\ fi' = FromIter_begin(src, endless)
  /\ heap' = Retained
  /\ last' = NoCall
  /\ UNCHANGED <<kept, its, tasks>>

FromIterPull ==
  /\ fi.pc = "loop"
  /\ fi.endless => fi.pulled < MaxPull
  /\ LET s == FromIter_step(heap, fi) IN
       IF s.done
       THEN /\ heap' = s.out.heap
            /\ last' = [Record("fromIter", 0, NoArgs, s.out) EXCEPT
                          !.src = s.fi.src, !.endless = s.fi.endless,
                          !.pulled = s.fi.pulled]
            /\ fi' = NoFromIter
       ELSE /\ fi' = s.fi
            /\ UNCHANGED <<heap, last>>
  /\ UNCHANGED <<kept, its, tasks>>

(***************************************************************************)
(* [Symbol.iterator]().  An iterator object remembers the Result it was    *)
(* obtained from and, for an Ok, its own flag `ran`.                       *)
(***************************************************************************)
IterObj(i)       == [k |-> "iterator", n |-> i]
IterResult(v, d) == [k |-> "iterResult", n |-> [value |-> v, done |-> d]]

Ok_iterator(h, r)  == [recv |-> r, ran |-> FALSE]
Err_iterator(h, r) == [recv |-> r, ran |-> FALSE]

\* a next that does not note that it has run
Ok_next_forgets(h, it) ==
  IF it.ran
  THEN [it |-> it, ret |-> IterResult(Undefined, Bool(TRUE))]
  ELSE [it |-> it, ret |-> IterResult(h[it.recv].val, Undefined)]

\* next() of an iterator of an Ok: { value: this.ok } carries no `done`
Ok_next(h, it) ==
  IF it.ran
  THEN [it |-> it, ret |-> IterResult(Undefined, Bool(TRUE))]
  ELSE [it |-> [it EXCEPT !.ran = TRUE], ret |-> IterResult(h[it.recv].val, Undefined)]

\* a next copied from Ok: the payload of the Err is yielded once
Err_next_yields(h, it) ==
  IF it.ran
  THEN [it |-> it, ret |-> IterResult(Undefined, Bool(TRUE))]
  ELSE [it |-> [it EXCEPT !.ran = TRUE], ret |-> IterResult(h[it.recv].val, Undefined)]

Err_next(h, it) == [it |-> it, ret |-> IterResult(Undefined, Bool(TRUE))]

GetIterator(R, limit) ==
  /\ Idle
  /\ Len(its) < limit
  /\ \E r \in R :
       /\ its' = Append(its, IF heap[r].cls = "Ok" THEN Ok_iterator(heap, r)
                                                    ELSE Err_iterator(heap, r))
       /\ last' = [NoCall EXCEPT !.op = "iterator", !.recv = r,
                                 !.ret = IterObj(Len(its) + 1)]
  /\ heap' = Retained
  /\ UNCHANGED <<kept, fi, tasks>>

CallIterator(R) == GetIterator(R, MaxIts)

\* it.next(), and it[Symbol.iterator](), which returns it
IterNext ==
  /\ Idle
  /\ \E i \in 1..Len(its) :
       \/ LET s == IF heap[its[i].recv].cls = "Ok" THEN Ok_next(heap, its[i])
                                                    ELSE Err_next(heap, its[i]) IN
            /\ its' = [its EXCEPT ![i] = s.it]
            /\ last' = [NoCall EXCEPT !.op = "next", !.recv = its[i].recv,
                                      !.a = [NoArgs EXCEPT !.other = i], !.ret = s.ret]
       \/ /\ its' = its
          /\ last' = [NoCall EXCEPT !.op = "iteratorOfIterator", !.recv = its[i].recv,
                                    !.a = [NoArgs EXCEPT !.other = i], !.ret = IterObj(i)]
  /\ heap' = Retained
  /\ UNCHANGED <<kept, fi, tasks>>

(***************************************************************************)
(* Iteration to exhaustion, as [...x] and for...of do it: x[Symbol.iterator]*)
(* is called once, then next() until a result whose `done` is truthy; the  *)
(* `value` of every result before that one is collected.                   *)
(***************************************************************************)
Truthy(v) == v \notin {Undefined, Null, Num(0), Str(""), Bool(FALSE)}

Step(h, it) == IF h[it.recv].cls = "Ok" THEN Ok_next(h, it) ELSE Err_next(h, it)

\* at most `fuel` values are collected
RECURSIVE Drain(_, _, _, _)
Drain(h, it, acc, fuel) ==
  LET s == Step(h, it) IN
    IF Truthy(s.ret.n.done) \/ fuel = 0
    THEN [it |-> s.it, vals |-> acc]
    ELSE Drain(h, s.it, Append(acc, s.ret.n.value), fuel - 1)

\* [...r] for a Result r of R, and [...it] for an iterator it at hand
Spread(R) ==
  /\ Idle
  /\ \/ \E r \in R :
          LET it == IF heap[r].cls = "Ok" THEN Ok_iterator(heap, r)
                                         ELSE Err_iterator(heap, r)
              d  == Drain(heap, it, <<>>, MaxDrain) IN
            /\ its' = its
            /\ last' = [NoCall EXCEPT !.op = "spread", !.recv = r, !.ret = Arr(d.vals)]
     \/ \E i \in 1..Len(its) :
          LET d == Drain(heap, its[i], <<>>, MaxDrain) IN
            /\ its' = [its EXCEPT ![i] = d.it]
            /\ last' = [NoCall EXCEPT !.op = "spreadIterator", !.recv = its[i].recv,
                                      !.a = [NoArgs EXCEPT !.other = i],
                                      !.ret = Arr(d.vals)]
  /\ heap' = Retained
  /\ UNCHANGED <<kept, fi, tasks>>

(***************************************************************************)
(* The asynchronous sisters.  A call runs up to its await or return: it    *)
(* returns a promise that is already fulfilled (Promise.resolve), or it    *)
(* invokes the callback, whose promise is pending, and becomes a task.     *)
(* The host fulfils the callback's promise with the callback's value       *)
(* (CallbackSettles) and the call then completes (Complete): the promise   *)
(* it returned is fulfilled with last.ret.                                 *)
(***************************************************************************)
Promise(state, v) == [k |-> "promise", n |-> [state |-> state, val |-> v]]

Resolved(h, v) ==
  [heap |-> h, ret |-> Promise("fulfilled", v), thrown |-> FALSE, msg |-> "",
   calls |-> <<>>, task |-> <<>>]

Awaiting(h, op, r, fn, v) ==
  [heap |-> h, ret |-> Promise("pending", NoValue), thrown |-> FALSE, msg |-> "",
   calls |-> <<<<fn, v>>>>,
   task |-> <<[op |-> op, recv |-> r, fn |-> fn, arg |-> v, cb |-> "pending"]>>]

\* A callback that raises instead of returning a promise: <<"raise">>.
Raises(fn) == fn = <<"raise">>
Failure    == [k |-> "error", n |-> "raised by the callback"]

\* the error leaves an `async` method as a rejected promise
Rejected(h, fn, v) ==
  [heap |-> h, ret |-> Promise("rejected", Failure), thrown |-> FALSE, msg |-> "",
   calls |-> <<<<fn, v>>>>, task |-> <<>>]

\* the error leaves a method that is not `async` as it was raised
Raised(h, fn, v) ==
  [heap |-> h, ret |-> NoValue, thrown |-> TRUE, msg |-> Failure.n,
   calls |-> <<<<fn, v>>>>, task |-> <<>>]

\* `await fn(x)` in a method declared async
AwaitsCallback(h, op, r, fn, v) ==
  IF Raises(fn) THEN Rejected(h, fn, v) ELSE Awaiting(h, op, r, fn, v)

\* `return fn(x)` in a method not declared async
ReturnsCallback(h, op, r, fn, v) ==
  IF Raises(fn) THEN Raised(h, fn, v) ELSE Awaiting(h, op, r, fn, v)

Ok_isOkAndAsync(h, r, a)    == ReturnsCallback(h, "isOkAndAsync", r, a.fn, h[r].val)
Ok_isErrAndAsync(h, r, a)   == Resolved(h, Bool(FALSE))
Ok_mapAsync(h, r, a)        == AwaitsCallback(h, "mapAsync", r, a.fn, h[r].val)
Ok_mapErrAsync(h, r, a)     == Resolved(h, Ref(r))
\* an Ok.inspectAsync that calls fn and returns without awaiting its promise
Ok_inspectAsync_noawait(h, r, a) ==
  [Resolved(h, Ref(r)) EXCEPT !.calls = <<<<a.fn, h[r].val>>>>]
Ok_inspectAsync(h, r, a)    == AwaitsCallback(h, "inspectAsync", r, a.fn, h[r].val)
Ok_inspectErrAsync(h, r, a) == Resolved(h, Ref(r))
\* an Ok.andThenAsync declared async
Ok_andThenAsync_async(h, r, a) == AwaitsCallback(h, "andThenAsync", r, a.fn, h[r].val)
Ok_andThenAsync(h, r, a)    == ReturnsCallback(h, "andThenAsync", r, a.fn, h[r].val)
Ok_orElseAsync(h, r, a)     == Resolved(h, Ref(r))

Err_isOkAndAsync(h, r, a)    == Resolved(h, Bool(FALSE))
Err_isErrAndAsync(h, r, a)   == ReturnsCallback(h, "isErrAndAsync", r, a.fn, h[r].val)
\* an Err.mapAsync that asks the callback, as Ok.mapAsync does
Err_mapAsync_awaits(h, r, a) == AwaitsCallback(h, "mapAsync", r, a.fn, h[r].val)
Err_mapAsync(h, r, a)        == Resolved(h, Ref(r))
Err_mapErrAsync(h, r, a)     == AwaitsCallback(h, "mapErrAsync", r, a.fn, h[r].val)
Err_inspectAsync(h, r, a)    == Resolved(h, Ref(r))
Err_inspectErrAsync(h, r, a) == AwaitsCallback(h, "inspectErrAsync", r, a.fn, h[r].val)
Err_andThenAsync(h, r, a)    == Resolved(h, Ref(r))
Err_orElseAsync(h, r, a)     == ReturnsCallback(h, "orElseAsync", r, a.fn, h[r].val)

AsyncMethod(op, h, r, a) ==
  IF h[r].cls = "Ok"
  THEN CASE op = "isOkAndAsync"    -> Ok_isOkAndAsync(h, r, a)
         [] op = "isErrAndAsync"   -> Ok_isErrAndAsync(h, r, a)
         [] op = "mapAsync"        -> Ok_mapAsync(h, r, a)
         [] op = "mapErrAsync"     -> Ok_mapErrAsync(h, r, a)
         [] op = "inspectAsync"    -> Ok_inspectAsync(h, r, a)
         [] op = "inspectErrAsync" -> Ok_inspectErrAsync(h, r, a)
         [] op = "andThenAsync"    -> Ok_andThenAsync(h, r, a)
         [] op = "orElseAsync"     -> Ok_orElseAsync(h, r, a)
  ELSE CASE op = "isOkAndAsync"    -> Err_isOkAndAsync(h, r, a)
         [] op = "isErrAndAsync"   -> Err_isErrAndAsync(h, r, a)
         [] op = "mapAsync"        -> Err_mapAsync(h, r, a)
         [] op = "mapErrAsync"     -> Err_mapErrAsync(h, r, a)
         [] op = "inspectAsync"    -> Err_inspectAsync(h, r, a)
         [] op = "inspectErrAsync" -> Err_inspectErrAsync(h, r, a)
         [] op = "andThenAsync"    -> Err_andThenAsync(h, r, a)
         [] op = "orElseAsync"     -> Err_orElseAsync(h, r, a)

\* a completion that hands on what the callback's promise gave, unwrapped
Settle_flat(h, t) ==
  LET c == Invoke(h, t.fn, t.arg) IN
    IF t.op \in {"inspectAsync", "inspectErrAsync"}
    THEN Return(c.heap, Ref(t.recv), <<>>)
    ELSE Return(c.heap, c.val, <<>>)

\* a completion that stores the mapped value in the receiver
Settle_inplace(h, t) ==
  LET c == Invoke(h, t.fn, t.arg) IN
    IF t.op \in {"mapAsync", "mapErrAsync"}
    THEN Return([c.heap EXCEPT ![t.recv].val = c.val], Ref(t.recv), <<>>)
    ELSE Settle_flat(h, t)

\* what the promise returned by task t's call is fulfilled with, once the
\* callback's promise is fulfilled with the callback's value
Settle(h, t) ==
  LET c == Invoke(h, t.fn, t.arg) IN
    CASE t.op = "mapAsync"                          -> NewOk(c.heap, c.val, <<>>)
      [] t.op = "mapErrAsync"                       -> NewErr(c.heap, c.val, <<>>)
      [] t.op \in {"inspectAsync", "inspectErrAsync"} -> Return(c.heap, Ref(t.recv), <<>>)
      [] OTHER                                      -> Return(c.heap, c.val, <<>>)

AsyncOps == {"isOkAndAsync", "isErrAndAsync", "mapAsync", "mapErrAsync",
             "inspectAsync", "inspectErrAsync", "andThenAsync", "orElseAsync"}

AsyncFns(op, F) ==
  CASE op \in {"isOkAndAsync", "isErrAndAsync"} -> Preds
    [] op \in {"andThenAsync", "orElseAsync"}   -> ResultFns
    [] OTHER                                    -> F

\* r.op(f) for an asynchronous op, r of R and f of Fns[op], while fewer than
\* `limit` calls are in flight
Start(R, Fns, limit) ==
  /\ Idle
  /\ \E op \in AsyncOps, r \in R :
       \E f \in Fns[op] :
         LET a   == [NoArgs EXCEPT !.fn = f]
             out == AsyncMethod(op, Retained, r, a) IN
           /\ Len(tasks) + Len(out.task) <= limit
           /\ heap' = out.heap
           /\ tasks' = tasks \o out.task
           /\ last' = Record(op, r, a, out)
  /\ UNCHANGED <<kept, fi, its>>

AsyncCall(R, F) ==
  Start(R, [op \in AsyncOps |-> AsyncFns(op, F)], MaxTasks)

CallbackSettles ==
  /\ Idle
  /\ \E i \in 1..Len(tasks) :
       /\ tasks[i].cb = "pending"
       /\ tasks' = [tasks EXCEPT ![i].cb = "fulfilled"]
  /\ UNCHANGED <<heap, kept, last, fi, its>>

Complete ==
  /\ Idle
  /\ \E i \in 1..Len(tasks) :
       /\ tasks[i].cb = "fulfilled"
       /\ LET out == Settle(Retained, tasks[i]) IN
            /\ heap' = out.heap
            /\ last' = Record("settled", tasks[i].recv,
                              [NoArgs EXCEPT !.fn = tasks[i].fn, !.str = tasks[i].op], out)
       /\ tasks' = SubSeq(tasks, 1, i - 1) \o SubSeq(tasks, i + 1, Len(tasks))
  /\ UNCHANGED <<kept, fi, its>>

(***************************************************************************)
(* Specifications.                                                         *)
(***************************************************************************)
Init ==
  /\ heap = <<>>
  /\ kept = 0
  /\ last = NoCall
  /\ fi = NoFromIter
  /\ its = <<>>
  /\ tasks = <<>>

\* a program that constructs Results and calls their synchronous methods
CtorOps == {"ok", "err"}

Next ==
  \/ Construct(Prims, MaxHeap)
  \/ Call(SyncOps, 1..kept, ValueFns)
  \/ Chain(CtorOps, QueryOps \cup UnwrapOps \cup ExpectOps, ValueFns)

Spec == Init /\ [][Next]_vars

\* a program that collects the Results it constructed with Result.fromIter
NextIter ==
  \/ Construct(Prims, MaxHeap)
  \/ FromIterStart(1..kept)
  \/ FromIterPull

SpecIter == Init /\ [][NextIter]_vars

\* the loop of fromIter is synchronous code: once entered it keeps running
SpecIterFair == SpecIter /\ WF_vars(FromIterPull)

\* a program that maps a Result, and maps what that returned
NextMap ==
  \/ Construct(Prims, MaxHeap)
  \/ Call(MapOps, 1..kept, ValueFns \cup ComposedFns)
  \/ Chain(CtorOps \cup MapOps, MapOps, ValueFns)

SpecMap == Init /\ [][NextMap]_vars

\* a program that combines Results with and / or
NextAndOr ==
  \/ Construct({Undefined, Num(0)}, MaxOperands)
  \/ Call(AndOrOps, 1..kept, ValueFns)
  \/ Chain(AndOrOps, AndOrOps, ValueFns)

SpecAndOr == Init /\ [][NextAndOr]_vars

\* a program that holds a Result r = heap[kept], possibly one that wraps
\* another Result, and uses r in every way the library offers
InitFrame ==
  /\ heap \in {<<o>> : o \in {OkObj(v) : v \in Defaults} \cup {ErrObj(v) : v \in Defaults}}
        \cup {<<i, o>> : i \in {OkObj(Num(0)), ErrObj(Num(0))},
                         o \in {OkObj(Ref(1)), ErrObj(Ref(1))}}
  /\ kept = Len(heap)
  /\ last = NoCall
  /\ fi = NoFromIter
  /\ its = <<>>
  /\ tasks = <<>>

NextFrame ==
  \/ Call(SyncOps, {kept}, {<<"succ">>})
  \/ FromIterStart({kept})
  \/ FromIterPull
  \/ CallIterator({kept})
  \/ IterNext
  \/ AsyncCall({kept}, {<<"succ">>})
  \/ CallbackSettles
  \/ Complete

SpecFrame == InitFrame /\ [][NextFrame]_vars

\* a program that nests Results and reshapes them: the payloads are the
\* absent values, the other falsy values and the Results already at hand
ShapeOps == {"transpose", "flatten", "clone"}
Falsy    == {Undefined, Null, Num(0), Str(""), Bool(FALSE)}

NextShape ==
  \/ Construct(Falsy \cup {Ref(i) : i \in 1..kept}, MaxHeap)
  \/ Call(ShapeOps, 1..kept, ValueFns)
  \/ Chain(CtorOps \cup ShapeOps, ShapeOps, ValueFns)

SpecShape == Init /\ [][NextShape]_vars

\* a program that holds one Result r = heap[1] and calls its asynchronous
\* methods, several at a time, with callbacks that return a promise and with
\* one that raises
InitAsync ==
  /\ heap \in {<<o>> : o \in {OkObj(v) : v \in Defaults} \cup {ErrObj(v) : v \in Defaults}}
  /\ kept = 1
  /\ last = NoCall
  /\ fi = NoFromIter
  /\ its = <<>>
  /\ tasks = <<>>

AsyncArgs == [op \in AsyncOps |-> AsyncFns(op, ValueFns) \cup {<<"raise">>}]

NextAsync ==
  \/ Start({kept}, AsyncArgs, MaxInFlight)
  \/ CallbackSettles
  \/ Complete

SpecAsync == InitAsync /\ [][NextAsync]_vars

\* a program that constructs Results in both ways, from absent, falsy and
\* other payloads and from the Results already at hand, and extracts from the
\* Result just constructed
NewOps == {"newOk", "newErr"}

NextConstruct ==
  \/ Construct(Falsy \cup {Num(1)} \cup {Ref(i) : i \in 1..kept}, MaxHeap)
  \/ New(Falsy \cup {Num(1)} \cup {Ref(i) : i \in 1..kept}, MaxHeap)
  \/ Chain(CtorOps \cup NewOps, QueryOps \cup UnwrapOps, ValueFns)

SpecConstruct == Init /\ [][NextConstruct]_vars

\* a program that maps either channel of a Result, with the identity too,
\* and maps what that returned
NextLaws ==
  \/ Construct(Prims, MaxHeap)
  \/ Call(MapOps, 1..kept, ValueFns \cup ComposedFns \cup {<<"id">>})
  \/ Chain(CtorOps \cup MapOps, MapOps, ValueFns)

SpecLaws == Init /\ [][NextLaws]_vars

\* a program that iterates its Results, by hand and with [...x]
NextIterate ==
  \/ Construct({Undefined, Num(0)}, MaxHeap)
  \/ GetIterator(1..kept, MaxIterators)
  \/ IterNext
  \/ Spread(1..kept)

SpecIterate == Init /\ [][NextIterate]_vars

(***************************************************************************)
(* Properties.                                                             *)
(***************************************************************************)
\* the call in `last` was made on what the constructor `ctor` just returned
On(ctor) == last.chain # <<>> /\ last.chain[1].op = ctor

\* the payload that constructor was given
Given == last.chain[1].a.arg

\* C1: for every payload v, Result.ok(v).isOk() is true and
\* Result.ok(v).isErr() is false, Result.err(v).isOk() is false and
\* Result.err(v).isErr() is true; and of every Result exactly one of isOk()
\* and isErr() is true.
C1_VariantQueries ==
  /\ (last.op = "isOk" /\ On("ok"))   => (~last.thrown /\ last.ret = Bool(TRUE))
  /\ (last.op = "isErr" /\ On("ok"))  => (~last.thrown /\ last.ret = Bool(FALSE))
  /\ (last.op = "isOk" /\ On("err"))  => (~last.thrown /\ last.ret = Bool(FALSE))
  /\ (last.op = "isErr" /\ On("err")) => (~last.thrown /\ last.ret = Bool(TRUE))
  /\ \A r \in 1..Len(heap) :
       LET isOk  == Method("isOk", heap, r, NoArgs).ret
           isErr == Method("isErr", heap, r, NoArgs).ret
       IN {isOk, isErr} = {Bool(TRUE), Bool(FALSE)}

C1_Witness ==
  /\ last.op = "isErr"
  /\ On("err")
  /\ Given = Null
  /\ last.ret = Bool(TRUE)

\* C2: no library operation invoked on a Result the program holds, or given
\* it as an argument, changes that Result: it stays the same object, of the
\* same variant and with the same payload.
C2_Frame ==
  [][/\ kept' = kept
     /\ Len(heap') >= kept
     /\ \A i \in 1..kept : heap'[i] = heap[i]]_vars

C2_Witness ==
  /\ last.op = "settled"
  /\ last.a.str = "mapAsync"
  /\ heap[kept] = OkObj(Num(0))
  /\ last.ret = Ref(kept + 1)
  /\ heap[kept + 1] = OkObj(Num(1))

C4_Expect ==
  /\ (last.op = "expect" /\ On("ok"))     => (~last.thrown /\ last.ret = Given)
  /\ (last.op = "expectErr" /\ On("err")) => (~last.thrown /\ last.ret = Given)
  /\ (last.op = "expect" /\ On("err")) =>
       /\ last.thrown
       /\ last.msg = last.a.str \o ": expect called on an Err value"
  /\ (last.op = "expectErr" /\ On("ok")) =>
       /\ last.thrown
       /\ last.msg = last.a.str \o ": expectErr called on an Ok value"

C4_Witness ==
  /\ last.op = "expect"
  /\ On("err")
  /\ last.a.str = "message"
  /\ last.msg = "message: expect called on an Err value"

\* the Results of src are all Ok / the index in src of its first Err
AllOk(h, src)  == \A i \in 1..Len(src) : h[src[i]].cls = "Ok"
HasErr(h, src) == ~AllOk(h, src)
FirstErr(h, src) ==
  CHOOSE i \in 1..Len(src) :
    /\ h[src[i]].cls = "Err"
    /\ \A j \in 1..(i - 1) : h[src[j]].cls = "Ok"

\* C5: on a finite source whose elements are all Ok, fromIter returns an Ok
\* holding an array as long as the source whose i-th element is the payload
\* of the i-th Result, undefined and null payloads included; on the empty
\* source it returns Ok([]).
C5_FromIterCollects ==
  (last.op = "fromIter" /\ ~last.endless /\ AllOk(heap, last.src)) =>
    /\ ~last.thrown
    /\ last.ret.k = "ref"
    /\ heap[last.ret.n].cls = "Ok"
    /\ heap[last.ret.n].val.k = "arr"
    /\ Len(heap[last.ret.n].val.n) = Len(last.src)
    /\ \A i \in 1..Len(last.src) : heap[last.ret.n].val.n[i] = heap[last.src[i]].val
    /\ last.pulled = Len(last.src)

C5_Witness ==
  /\ last.op = "fromIter"
  /\ last.src = <<1, 2>>
  /\ heap[1] = OkObj(Undefined)
  /\ heap[2] = OkObj(Null)
  /\ heap[last.ret.n] = OkObj(Arr(<<Undefined, Null>>))

\* C6: when the source holds an Err, the first at index k (from 0), fromIter
\* returns that very Err, having pulled exactly k + 1 elements and allocated
\* nothing; while it runs it has pulled at most k elements; and it does
\* return, also when the source is endless.
C6_State ==
  /\ (last.op = "fromIter" /\ HasErr(heap, last.src)) =>
       /\ ~last.thrown
       /\ last.ret = Ref(last.src[FirstErr(heap, last.src)])
       /\ last.pulled = FirstErr(heap, last.src)
       /\ Len(heap) = kept
  /\ (fi.pc = "loop" /\ HasErr(heap, fi.src)) =>
       fi.pulled < FirstErr(heap, fi.src)

C6_ShortCircuit ==
  /\ []C6_State
  /\ (fi.pc = "loop" /\ HasErr(heap, fi.src)) ~> (fi.pc = "idle" /\ last.op = "fromIter")

C6_Witness ==
  /\ last.op = "fromIter"
  /\ last.endless
  /\ last.src = <<1, 2>>
  /\ heap[1].cls = "Ok"
  /\ heap[2].cls = "Err"
  /\ last.ret = Ref(2)
  /\ last.pulled = 2

\* C7: Ok(v).map(f) invokes f once, with v, and returns an Ok whose payload
\* is f(v); Err(e).map(f) returns the receiver itself, its payload still e,
\* and does not invoke f.
C7_Map ==
  last.op = "map" =>
    LET r == last.recv
        v == heap[r].val
    IN /\ ~last.thrown
       /\ IF heap[r].cls = "Ok"
          THEN /\ last.calls = <<<<last.a.fn, v>>>>
               /\ last.ret.k = "ref"
               /\ heap[last.ret.n] = OkObj(Invoke(heap, last.a.fn, v).val)
          ELSE /\ last.calls = <<>>
               /\ last.ret = Ref(r)
       /\ On("ok")  => heap[r] = OkObj(Given)
       /\ On("err") => heap[r] = ErrObj(Given)

C7_Witness ==
  /\ last.op = "map"
  /\ On("ok")
  /\ Given = Num(0)
  /\ last.a.fn = <<"succ">>
  /\ last.calls = <<<<(<<"succ">>), Num(0)>>>>
  /\ heap[last.ret.n] = OkObj(Num(1))

\* C8: for an Ok r, r.map(f).map(g) has the variant and the payload of
\* r.map(x => g(f(x))); for an Err r, r.map(f).map(g) is r.
C8_FunctorLaw ==
  (last.op = "map" /\ last.chain # <<>> /\ last.chain[1].op = "map") =>
    LET r    == last.chain[1].recv
        comp == [NoArgs EXCEPT !.fn = last.chain[1].a.fn \o last.a.fn]
        d    == Method("map", heap, r, comp)
    IN IF heap[r].cls = "Ok"
       THEN /\ last.ret.k = "ref"
            /\ heap[last.ret.n] = d.heap[d.ret.n]
       ELSE last.ret = Ref(r)

C8_Witness ==
  /\ last.op = "map"
  /\ last.chain # <<>>
  /\ last.chain[1].op = "map"
  /\ heap[last.chain[1].recv] = OkObj(Num(0))
  /\ last.chain[1].a.fn = <<"toNull">>
  /\ last.a.fn = <<"succ">>
  /\ heap[last.ret.n] = OkObj(Num(0))

\* C9: Err(e).mapErr(f) invokes f once, with e, and returns an Err whose
\* payload is f(e); Ok(v).mapErr(f) returns the receiver itself, its payload
\* still v, and does not invoke f.
C9_MapErr ==
  last.op = "mapErr" =>
    LET r == last.recv
        e == heap[r].val
    IN /\ ~last.thrown
       /\ IF heap[r].cls = "Err"
          THEN /\ last.calls = <<<<last.a.fn, e>>>>
               /\ last.ret.k = "ref"
               /\ heap[last.ret.n] = ErrObj(Invoke(heap, last.a.fn, e).val)
          ELSE /\ last.calls = <<>>
               /\ last.ret = Ref(r)
       /\ On("ok")  => heap[r] = OkObj(Given)
       /\ On("err") => heap[r] = ErrObj(Given)

C9_Witness ==
  /\ last.op = "mapErr"
  /\ On("err")
  /\ Given = Null
  /\ last.a.fn = <<"succ">>
  /\ last.calls = <<<<(<<"succ">>), Null>>>>
  /\ heap[last.ret.n] = ErrObj(Num(0))

\* C10: a.and(b) is b itself when a is an Ok and a itself when a is an Err;
\* a.or(b) is a itself when a is an Ok and b itself when a is an Err; no
\* Result is allocated; and Ok(v).and(Ok(w)).or(Ok(x)) is the Ok(w) object.
C10_AndOr ==
  /\ last.op = "and" =>
       /\ ~last.thrown
       /\ last.ret = IF heap[last.recv].cls = "Ok" THEN Ref(last.a.other)
                                                   ELSE Ref(last.recv)
  /\ last.op = "or" =>
       /\ ~last.thrown
       /\ last.ret = IF heap[last.recv].cls = "Ok" THEN Ref(last.recv)
                                                   ELSE Ref(last.a.other)
  /\ last.op \in AndOrOps => (Len(heap) = kept /\ last.calls = <<>>)
  /\ ( /\ last.op = "or"
       /\ last.chain # <<>>
       /\ last.chain[1].op = "and"
       /\ heap[last.chain[1].recv].cls = "Ok"
       /\ heap[last.chain[1].a.other].cls = "Ok"
       /\ heap[last.a.other].cls = "Ok" ) =>
       /\ last.recv = last.chain[1].a.other
       /\ last.ret = Ref(last.chain[1].a.other)

C10_Witness ==
  /\ last.op = "or"
  /\ last.chain # <<>>
  /\ last.chain[1].op = "and"
  /\ last.chain[1].recv = 1
  /\ last.chain[1].a.other = 2
  /\ last.a.other = 3
  /\ \A i \in 1..3 : heap[i].cls = "Ok"
  /\ last.ret = Ref(2)

\* the receiver of the call in `last`, a Result the program holds
Recv == Retained[last.recv]

\* what the callback of the call in `last` returns for the receiver's payload
Applied(fn) == Invoke(Retained, fn, Recv.val)

\* C11: Ok(v).andThen(f) invokes f once, with v, and returns the object f
\* returned; Err(e).andThen(f) returns the receiver itself and does not
\* invoke f; Err(e).orElse(g) invokes g once, with e, and returns the object
\* g returned; Ok(v).orElse(g) returns the receiver itself and does not
\* invoke g.
C11_LazyChaining ==
  (last.op \in ThenOps /\ last.chain = <<>>) =>
    /\ ~last.thrown
    /\ IF (last.op = "andThen") = (Recv.cls = "Ok")
       THEN /\ last.calls = <<<<last.a.fn, Recv.val>>>>
            /\ last.ret = Applied(last.a.fn).val
            /\ heap = Applied(last.a.fn).heap
            /\ last.ret = Ref(kept + 1)
            /\ Len(heap) = kept + 1
            /\ heap[kept + 1].val = Recv.val
            /\ heap[kept + 1].cls = (IF last.a.fn = <<"mkOk">> THEN "Ok" ELSE "Err")
       ELSE /\ last.calls = <<>>
            /\ last.ret = Ref(last.recv)
            /\ heap = Retained

C11_Witness ==
  /\ last.op = "orElse"
  /\ Recv = ErrObj(Num(0))
  /\ last.a.fn = <<"mkOk">>
  /\ last.calls = <<<<(<<"mkOk">>), Num(0)>>>>
  /\ last.ret = Ref(kept + 1)
  /\ heap[kept + 1] = OkObj(Num(0))

\* C12: Ok(v).unwrapOr(d) and Ok(v).unwrapOrElse(f) return v without
\* invoking f; Err(e).unwrapOr(d) returns d; Err(e).unwrapOrElse(f) invokes f
\* once, with e, and returns f(e); none of the four raises.
C12_UnwrapOr ==
  /\ (last.op = "unwrapOr" /\ last.chain = <<>>) =>
       /\ ~last.thrown
       /\ last.calls = <<>>
       /\ last.ret = IF Recv.cls = "Ok" THEN Recv.val ELSE last.a.arg
  /\ (last.op = "unwrapOrElse" /\ last.chain = <<>>) =>
       /\ ~last.thrown
       /\ IF Recv.cls = "Ok"
          THEN last.calls = <<>> /\ last.ret = Recv.val
          ELSE /\ last.calls = <<<<last.a.fn, Recv.val>>>>
               /\ last.ret = Applied(last.a.fn).val

C12_Witness ==
  /\ last.op = "unwrapOr"
  /\ Recv = OkObj(Undefined)
  /\ last.a.arg = Num(0)
  /\ last.ret = Undefined

\* C13: Ok(v).mapOr(d, f) and Ok(v).mapOrElse(h, f) return f(v), invoking f
\* once and h never; Err(e).mapOr(d, f) returns d and Err(e).mapOrElse(h, f)
\* returns h(e), neither invoking f.
C13_MapOr ==
  /\ (last.op = "mapOr" /\ last.chain = <<>>) =>
       /\ ~last.thrown
       /\ IF Recv.cls = "Ok"
          THEN /\ last.calls = <<<<last.a.fn, Recv.val>>>>
               /\ last.ret = Applied(last.a.fn).val
          ELSE last.calls = <<>> /\ last.ret = last.a.arg
  /\ (last.op = "mapOrElse" /\ last.chain = <<>>) =>
       /\ ~last.thrown
       /\ IF Recv.cls = "Ok"
          THEN /\ last.calls = <<<<last.a.fn, Recv.val>>>>
               /\ last.ret = Applied(last.a.fn).val
          ELSE /\ last.calls = <<<<last.a.fn2, Recv.val>>>>
               /\ last.ret = Applied(last.a.fn2).val

C13_Witness ==
  /\ last.op = "mapOrElse"
  /\ Recv = ErrObj(Num(0))
  /\ last.a.fn = <<"toNull">>
  /\ last.a.fn2 = <<"succ">>
  /\ last.calls = <<<<(<<"succ">>), Num(0)>>>>
  /\ last.ret = Num(1)

\* C14: r.isOkAnd(p) is true exactly when r is an Ok and p(r.ok) is true,
\* r.isErrAnd(p) is true exactly when r is an Err and p(r.err) is true; p is
\* invoked once on the matching variant and never on the other.
C14_GuardedQueries ==
  (last.op \in PredOps /\ last.chain = <<>>) =>
    LET matching == (last.op = "isOkAnd") = (Recv.cls = "Ok") IN
      /\ ~last.thrown
      /\ last.ret \in {Bool(TRUE), Bool(FALSE)}
      /\ (last.ret = Bool(TRUE)) <=>
           (matching /\ Applied(last.a.fn).val = Bool(TRUE))
      /\ last.calls = IF matching THEN <<<<last.a.fn, Recv.val>>>> ELSE <<>>

C14_Witness ==
  /\ last.op = "isErrAnd"
  /\ Recv = ErrObj(Num(0))
  /\ last.a.fn = <<"isZero">>
  /\ last.calls = <<<<(<<"isZero">>), Num(0)>>>>
  /\ last.ret = Bool(TRUE)

\* C15: inspect and inspectErr return the receiver itself on both variants;
\* Ok(v).inspect(f) invokes f once with v, Err(e).inspectErr(f) invokes f
\* once with e, Err(e).inspect(f) and Ok(v).inspectErr(f) do not invoke f;
\* what f returns has no effect on the result.
C15_Inspect ==
  (last.op \in {"inspect", "inspectErr"} /\ last.chain = <<>>) =>
    /\ ~last.thrown
    /\ last.ret = Ref(last.recv)
    /\ heap = Retained
    /\ last.calls = IF (last.op = "inspect") = (Recv.cls = "Ok")
                    THEN <<<<last.a.fn, Recv.val>>>> ELSE <<>>

C15_Witness ==
  /\ last.op = "inspect"
  /\ Recv = OkObj(Num(0))
  /\ last.a.fn = <<"toNull">>
  /\ last.calls = <<<<(<<"toNull">>), Num(0)>>>>
  /\ last.ret = Ref(last.recv)

\* the receiver of the call in `last`, be it held by the program or the
\* Result the call before it in the chain returned
Target == heap[last.recv]

\* C16: Ok(v).transpose() is undefined exactly when v is undefined or null;
\* for every other v, the falsy values 0, "" and false included, it is an Ok
\* whose payload is v; Err(e).transpose() is the receiver itself for every e.
C16_Transpose ==
  last.op = "transpose" =>
    /\ ~last.thrown
    /\ last.calls = <<>>
    /\ Target.cls = "Ok" =>
         /\ (last.ret = Undefined) <=> (Target.val \in {Undefined, Null})
         /\ last.ret # Undefined =>
              /\ last.ret.k = "ref"
              /\ heap[last.ret.n] = OkObj(Target.val)
    /\ Target.cls = "Err" => last.ret = Ref(last.recv)
    /\ On("ok")  => Target = OkObj(Given)
    /\ On("err") => Target = ErrObj(Given)

C16_Witness ==
  /\ last.op = "transpose"
  /\ On("ok")
  /\ Given = Str("")
  /\ last.ret.k = "ref"
  /\ last.ret.n # last.recv
  /\ heap[last.ret.n] = OkObj(Str(""))

\* C17: Ok(inner).flatten() returns inner itself, be inner an Ok or an Err,
\* and Err(e).flatten() returns the receiver itself, also when e is a Result;
\* nothing is allocated and nothing is invoked.
C17_Flatten ==
  last.op = "flatten" =>
    /\ ~last.thrown
    /\ last.calls = <<>>
    /\ last.ret = IF Target.cls = "Ok" THEN Target.val ELSE Ref(last.recv)
    /\ last.chain = <<>> => heap = Retained
    /\ On("ok")  => Target = OkObj(Given)
    /\ On("err") => Target = ErrObj(Given)

C17_Witness ==
  /\ last.op = "flatten"
  /\ On("ok")
  /\ Given = Ref(1)
  /\ heap[1].cls = "Err"
  /\ last.ret = Ref(1)

\* C18: r.clone() is an object other than r, just allocated, of the variant
\* of r and holding the very payload of r (the same reference when the
\* payload is a Result); so r.clone() is value-equal to r and r.clone().clone()
\* is value-equal to r.
C18_Clone ==
  last.op = "clone" =>
    /\ ~last.thrown
    /\ last.calls = <<>>
    /\ last.ret.k = "ref"
    /\ last.ret.n # last.recv
    /\ last.ret.n = Len(heap)
    /\ last.ret.n > kept
    /\ last.chain = <<>> => Len(heap) = kept + 1
    /\ heap[last.ret.n].cls = Target.cls
    /\ heap[last.ret.n].val = Target.val
    /\ (last.chain # <<>> /\ last.chain[1].op = "clone") =>
         /\ heap[last.ret.n] = heap[last.chain[1].recv]
         /\ last.ret.n # last.chain[1].recv

C18_Witness ==
  /\ last.op = "clone"
  /\ last.chain # <<>>
  /\ last.chain[1].op = "clone"
  /\ last.chain[1].recv = 2
  /\ heap[2] = OkObj(Ref(1))
  /\ last.recv = 3
  /\ last.ret = Ref(4)
  /\ heap[4] = OkObj(Ref(1))

\* what iterating r yields: its payload if r is an Ok, nothing if an Err
Yield(r) == IF heap[r].cls = "Ok" THEN <<heap[r].val>> ELSE <<>>

\* C19: iterating a Result to exhaustion yields [v] for Ok(v) and [] for
\* Err(e), be it the Result that is iterated or the iterator object its
\* [Symbol.iterator]() returned, next() not yet called on it; that iterator's
\* own [Symbol.iterator]() returns the iterator itself.
C19_Iterate ==
  [][(last' # last \/ its' # its) =>
       /\ last'.op = "spread" =>
            /\ last'.ret = Arr(Yield(last'.recv))
            /\ its' = its
       /\ last'.op = "spreadIterator" =>
            /\ its[last'.a.other].recv = last'.recv
            /\ ~its[last'.a.other].ran => last'.ret = Arr(Yield(last'.recv))
            /\ its[last'.a.other].ran => last'.ret = Arr(<<>>)
       /\ last'.op = "iteratorOfIterator" =>
            /\ last'.ret = IterObj(last'.a.other)
            /\ its' = its
       /\ last'.op = "iterator" =>
            /\ last'.ret = IterObj(Len(its'))
            /\ Len(its') = Len(its) + 1
            /\ its'[Len(its')].recv = last'.recv
            /\ ~its'[Len(its')].ran
       /\ heap' = heap \/ last'.op \in CtorOps]_vars

C19_Witness ==
  /\ last.op = "spreadIterator"
  /\ heap[last.recv] = OkObj(Undefined)
  /\ last.ret = Arr(<<Undefined>>)
  /\ its[last.a.other].ran

\* C20: for an iterator obtained from Ok(v), undefined included, the first
\* next() yields v in a result that is not done, and every later next()
\* reports done with no value: the iterator never yields twice and never
\* starts over.  A call on one iterator leaves every other iterator as it
\* was, so two iterators of the same Ok yield v once each however their
\* calls interleave.
C20_OkIterator ==
  [][\A i \in 1..Len(its) :
       LET it    == its[i]
           calls == (last' # last \/ its' # its) /\ last'.op = "next"
                      /\ last'.a.other = i
           drains == (last' # last \/ its' # its) /\ last'.op = "spreadIterator"
                      /\ last'.a.other = i
       IN /\ Len(its') >= Len(its)
          /\ its'[i].recv = it.recv
          /\ it.ran => its'[i].ran
          /\ its'[i] # it => (calls \/ drains)
          /\ (calls /\ heap[it.recv].cls = "Ok" /\ ~it.ran) =>
               /\ last'.ret.n.value = heap[it.recv].val
               /\ ~Truthy(last'.ret.n.done)
               /\ its'[i].ran
          /\ (calls /\ heap[it.recv].cls = "Ok" /\ it.ran) =>
               /\ last'.ret.n.value = Undefined
               /\ last'.ret.n.done = Bool(TRUE)]_vars

C20_Witness ==
  /\ Len(its) = 2
  /\ its[1].recv = its[2].recv
  /\ heap[its[1].recv] = OkObj(Undefined)
  /\ its[1].ran
  /\ its[2].ran
  /\ last.op = "next"
  /\ last.a.other = 2
  /\ last.ret = IterResult(Undefined, Undefined)

\* the synchronous counterpart of an asynchronous method
SyncOf(op) ==
  CASE op = "isOkAndAsync"    -> "isOkAnd"
    [] op = "isErrAndAsync"   -> "isErrAnd"
    [] op = "mapAsync"        -> "map"
    [] op = "mapErrAsync"     -> "mapErr"
    [] op = "inspectAsync"    -> "inspect"
    [] op = "inspectErrAsync" -> "inspectErr"
    [] op = "andThenAsync"    -> "andThen"
    [] op = "orElseAsync"     -> "orElse"

\* v in heap h and w in heap g are equal values: equal primitives, or
\* Results of the same variant and payload
ValueEq(v, h, w, g) ==
  IF v.k = "ref" THEN w.k = "ref" /\ h[v.n] = g[w.n] ELSE v = w

\* the asynchronous method and the value its promise was fulfilled with, if
\* `last` is a call whose promise is fulfilled at once or a completion
Fulfilled ==
  \/ last.op = "settled"
  \/ last.op \in AsyncOps /\ ~last.thrown /\ last.ret.n.state = "fulfilled"
FulfilledOp  == IF last.op = "settled" THEN last.a.str ELSE last.op
FulfilledVal == IF last.op = "settled" THEN last.ret ELSE last.ret.n.val

\* C21: when the callback's promise is fulfilled with f(x), the promise of
\* r.mapAsync, r.mapErrAsync, r.andThenAsync, r.orElseAsync, r.isOkAndAsync
\* and r.isErrAndAsync is fulfilled with a value equal to what r.map(f),
\* r.mapErr(f), r.andThen(f), r.orElse(f), r.isOkAnd(f) and r.isErrAnd(f)
\* return; for andThenAsync and orElseAsync it is the same object.
C21_AsyncAgrees ==
  (Fulfilled /\ ~Raises(last.a.fn)
     /\ FulfilledOp \in AsyncOps \ {"inspectAsync", "inspectErrAsync"}) =>
    LET d == Method(SyncOf(FulfilledOp), Retained, last.recv,
                    [NoArgs EXCEPT !.fn = last.a.fn])
    IN /\ ~last.thrown
       /\ ~d.thrown
       /\ ValueEq(FulfilledVal, heap, d.ret, d.heap)
       /\ FulfilledOp \in {"andThenAsync", "orElseAsync"} =>
            (FulfilledVal = d.ret /\ heap = d.heap)

C21_Witness ==
  /\ last.op = "settled"
  /\ last.a.str = "andThenAsync"
  /\ last.a.fn = <<"mkErr">>
  /\ heap[1] = OkObj(Num(0))
  /\ last.ret = Ref(2)
  /\ heap[2] = ErrObj(Num(0))

\* the asynchronous methods that use their callback on an Ok; the other four
\* use it on an Err
OkAsyncOps == {"isOkAndAsync", "mapAsync", "inspectAsync", "andThenAsync"}
Active(op, obj) == (op \in OkAsyncOps) <=> (obj.cls = "Ok")

\* C22: on the variant they do not act on, mapAsync, inspectAsync,
\* andThenAsync (Err) and mapErrAsync, inspectErrAsync, orElseAsync (Ok)
\* return a promise already fulfilled with the receiver itself, isOkAndAsync
\* (Err) and isErrAndAsync (Ok) one already fulfilled with false; the callback
\* is not invoked, and no call of that kind is ever left waiting on a
\* callback's promise, whatever else is in flight.
C22_Inactive ==
  /\ (last.op \in AsyncOps /\ ~Active(last.op, heap[last.recv])) =>
       /\ ~last.thrown
       /\ last.calls = <<>>
       /\ last.ret = Promise("fulfilled",
                             IF last.op \in {"isOkAndAsync", "isErrAndAsync"}
                             THEN Bool(FALSE) ELSE Ref(last.recv))
  /\ \A i \in 1..Len(tasks) : Active(tasks[i].op, heap[tasks[i].recv])

C22_Witness ==
  /\ heap[1] = ErrObj(Undefined)
  /\ last.op = "mapAsync"
  /\ Raises(last.a.fn)
  /\ last.ret = Promise("fulfilled", Ref(1))
  /\ Len(tasks) = 1
  /\ tasks[1].cb = "pending"

InspectAsyncOps == {"inspectAsync", "inspectErrAsync"}

\* tasks without its i-th element
Without(i) == SubSeq(tasks, 1, i - 1) \o SubSeq(tasks, i + 1, Len(tasks))

\* C23: inspectAsync on an Ok and inspectErrAsync on an Err invoke the
\* callback once with the payload and return a promise that stays pending
\* while the callback's promise is pending; that promise is fulfilled only
\* after the callback's promise is, without a second invocation, and with the
\* receiver itself; a call whose callback's promise is pending never
\* completes.
C23_InspectAsync ==
  /\ [](  (/\ last.op \in InspectAsyncOps
           /\ Active(last.op, heap[last.recv])
           /\ ~Raises(last.a.fn)) =>
            /\ ~last.thrown
            /\ last.calls = <<<<last.a.fn, heap[last.recv].val>>>>
            /\ last.ret = Promise("pending", NoValue)
            /\ \E i \in 1..Len(tasks) :
                 /\ tasks[i].op = last.op
                 /\ tasks[i].recv = last.recv
                 /\ tasks[i].fn = last.a.fn  )
  /\ [][ Len(tasks') < Len(tasks) =>
           \E i \in 1..Len(tasks) :
             /\ tasks[i].cb = "fulfilled"
             /\ tasks' = Without(i)
             /\ last'.op = "settled"
             /\ last'.recv = tasks[i].recv
             /\ tasks[i].op \in InspectAsyncOps =>
                  /\ last'.ret = Ref(tasks[i].recv)
                  /\ last'.calls = <<>>
                  /\ ~last'.thrown
                  /\ heap' = Retained ]_vars

C23_Witness ==
  /\ last.op = "settled"
  /\ last.a.str = "inspectAsync"
  /\ last.a.fn = <<"succ">>
  /\ heap = <<OkObj(Num(0))>>
  /\ last.ret = Ref(1)
  /\ Len(tasks) = 1
  /\ tasks[1].op = "inspectAsync"
  /\ tasks[1].cb = "pending"

\* C24: calls of mapAsync in flight on the same Ok(v) do not affect each
\* other: each completes, in whatever order, with a new Ok holding its own
\* callback's value for v, and the receiver is still Ok(v) whenever one is
\* pending or has just completed.
C24_Independent ==
  /\ \A i \in 1..Len(tasks) :
       tasks[i].op = "mapAsync" => heap[tasks[i].recv] = OkObj(tasks[i].arg)
  /\ (last.op = "settled" /\ last.a.str = "mapAsync") =>
       /\ ~last.thrown
       /\ last.ret.k = "ref"
       /\ last.ret.n # last.recv
       /\ heap[last.recv].cls = "Ok"
       /\ heap[last.ret.n] = OkObj(Applied(last.a.fn).val)
       /\ \A i \in 1..Len(tasks) :
            tasks[i].recv = last.recv => tasks[i].arg = heap[last.recv].val

\* f2's call, started after f1's, has completed while f1's is still pending
C24_Witness ==
  /\ heap[1] = OkObj(Num(0))
  /\ last.op = "settled"
  /\ last.a.str = "mapAsync"
  /\ last.a.fn = <<"toNull">>
  /\ heap[last.ret.n] = OkObj(Null)
  /\ Len(tasks) = 1
  /\ tasks[1].op = "mapAsync"
  /\ tasks[1].fn = <<"succ">>
  /\ tasks[1].recv = 1

\* the methods declared `async`
DeclaredAsync == {"mapAsync", "mapErrAsync", "inspectAsync", "inspectErrAsync"}

\* C28: when the callback raises instead of returning a promise, the call of
\* Ok.mapAsync, Err.mapErrAsync, Ok.inspectAsync and Err.inspectErrAsync
\* returns a promise rejected with the error raised, and the call of
\* Ok.andThenAsync, Err.orElseAsync, Ok.isOkAndAsync and Err.isErrAndAsync
\* raises that error itself and returns nothing; no such call is left
\* waiting on a promise.
C28_RaisingCallback ==
  /\ (last.op \in AsyncOps /\ Raises(last.a.fn) /\ Active(last.op, heap[last.recv])) =>
       /\ last.calls = <<<<last.a.fn, heap[last.recv].val>>>>
       /\ IF last.op \in DeclaredAsync
          THEN ~last.thrown /\ last.ret = Promise("rejected", Failure)
          ELSE last.thrown /\ last.ret = NoValue /\ last.msg = Failure.n
  /\ \A i \in 1..Len(tasks) : ~Raises(tasks[i].fn)

C28_Witness ==
  /\ heap[1] = OkObj(Undefined)
  /\ last.op = "andThenAsync"
  /\ Raises(last.a.fn)
  /\ last.thrown
  /\ Len(tasks) = 1

\* the calls that extract the payload of the other variant
WrongVariant ==
  \/ last.op \in {"unwrap", "expect"} /\ heap[last.recv].cls = "Err"
  \/ last.op \in {"unwrapErr", "expectErr"} /\ heap[last.recv].cls = "Ok"

C29_ConstructorIdentity ==
  /\ (\/ last.op = "andThen" /\ last.a.fn = <<"mkOk">>
      \/ last.op = "orElse" /\ last.a.fn = <<"mkErr">>) =>
       /\ ~last.thrown
       /\ last.ret.k = "ref"
       /\ heap[last.ret.n] = Recv
  /\ (\/ last.op = "andThen" /\ Recv.cls = "Ok"
      \/ last.op = "orElse" /\ Recv.cls = "Err") =>
       /\ ~last.thrown
       /\ last.ret = Applied(last.a.fn).val
       /\ heap = Applied(last.a.fn).heap

C29_Witness ==
  /\ last.op = "andThen"
  /\ last.a.fn = <<"mkOk">>
  /\ Recv = OkObj(Undefined)
  /\ last.ret.n # last.recv
  /\ heap[last.ret.n] = OkObj(Undefined)

Built(op, v) == IF op \in {"ok", "newOk"} THEN OkObj(v) ELSE ErrObj(v)

\* C27: Result.ok(x), new Result.Ok(x), Result.err(x) and new Result.Err(x)
\* do not raise for any x, undefined and null included; each returns a new
\* object, leaving the others as they are, of the class its name says and
\* with x itself as payload.
C27_Construction ==
  /\ [](  (last.op \in CtorOps \cup NewOps) =>
            /\ ~last.thrown
            /\ last.ret = Ref(kept)
            /\ heap[kept] = Built(last.op, last.a.arg)  )
  /\ [][ (last'.op \in CtorOps \cup NewOps /\ last' # last) =>
           /\ kept' = kept + 1
           /\ heap' = Append(Retained, Built(last'.op, last'.a.arg)) ]_vars

C27_Witness ==
  /\ last.op = "newErr"
  /\ last.a.arg = Ref(1)
  /\ heap[1] = OkObj(Undefined)
  /\ heap[2] = ErrObj(Ref(1))
  /\ last.ret = Ref(2)

\* C30: for an Err r, r.mapErr(f).mapErr(g) is an Err with the payload of
\* r.mapErr(x => g(f(x))); r.map(x => x) and r.mapErr(x => x) have the variant
\* and the payload of r, for an Ok and for an Err r; map of an Err and mapErr
\* of an Ok return a Result with the payload the receiver was constructed
\* with, and leave the receiver holding it.
C30_ErrFunctorLaws ==
  /\ (/\ last.op = "mapErr"
      /\ last.chain # <<>>
      /\ last.chain[1].op = "mapErr"
      /\ heap[last.chain[1].recv].cls = "Err") =>
       LET r    == last.chain[1].recv
           comp == [NoArgs EXCEPT !.fn = last.chain[1].a.fn \o last.a.fn]
           d    == Method("mapErr", heap, r, comp)
       IN /\ last.ret.k = "ref"
          /\ heap[last.ret.n].cls = "Err"
          /\ heap[last.ret.n] = d.heap[d.ret.n]
  /\ (last.op \in MapOps /\ last.a.fn = <<"id">>) =>
       /\ ~last.thrown
       /\ last.ret.k = "ref"
       /\ heap[last.ret.n] = heap[last.recv]
  /\ (\/ last.op = "map" /\ heap[last.recv].cls = "Err"
      \/ last.op = "mapErr" /\ heap[last.recv].cls = "Ok") =>
       (last.calls = <<>> /\ heap[last.ret.n].val = heap[last.recv].val)
  /\ (last.op = "map" /\ On("err")) =>
       (heap[last.recv] = ErrObj(Given) /\ heap[last.ret.n] = ErrObj(Given))
  /\ (last.op = "mapErr" /\ On("ok")) =>
       (heap[last.recv] = OkObj(Given) /\ heap[last.ret.n] = OkObj(Given))

C30_Witness ==
  /\ last.op = "mapErr"
  /\ last.chain # <<>>
  /\ last.chain[1].op = "mapErr"
  /\ heap[last.chain[1].recv] = ErrObj(Num(0))
  /\ last.chain[1].a.fn = <<"succ">>
  /\ last.a.fn = <<"succ">>
  /\ heap[last.ret.n] = ErrObj(Num(2))

====
